---- MODULE Spec2Model ----
(***************************************************************************)
(* The bigdick storage engine (bigdick/dbase.py): an append-only log store *)
(* with an in-memory index, a capacity-bounded cache and a janitor thread  *)
(* that evicts cache entries from a queue of timestamped tickets.          *)
(*                                                                         *)
(* Time is counted in ticks of 0.1 s, so that two stamps are within the    *)
(* janitor's epsilon (abs(a - b) < 1e-1) exactly when they are less than   *)
(* Epsilon = 1 tick apart.  A file is the sequence of its characters; a    *)
(* character is a decimal digit 0..9 or one of the punctuation codes       *)
(* below, so that byte offsets, tell(), seek() and readline() are those    *)
(* of the code.                                                            *)
(***************************************************************************)
EXTENDS Integers, Sequences, FiniteSets, TLC

\* ---------------------------------------------------------------- bounds
NumThreads == 2
NumKeys == 2
MaxCalls == 3
MaxTime == 2
MaxCacheSize == 2
MaxCacheDuration == 1
SegmentBytes == 10
MaxOrdinal == 3
MaxSetBack == 1
WarmSize == 5

\* ------------------------------------------------------ program constants
Epsilon == 1

Threads == 1..NumThreads
Keys == 1..NumKeys
Values == {5, 12}
Defaults == {0, 7}
CacheSizes == 0..MaxCacheSize
CacheDurations == 1..MaxCacheDuration
DbFilesizes == {SegmentBytes}

None == -8
NoNumber == -7
LB == -1
RB == -2
COMMA == -3
SP == -4
NL == -5
BadValue == -9

VARIABLES
    cache_size,        \* _DBase._cache_size / _Cache._cache_size
    cache_duration,    \* _Cache._cache_duration
    db_filesize,       \* _DBase._db_filesize
    now,               \* the value time.time() returns
    lock,              \* _DBase._lock is held
    cache_lock,        \* the cache's _SafeDict._lock is held
    index,             \* _DBase._index: key -> [file, offset]
    cache,             \* _DBase._cache: key -> [stamp, value]
    setitem_history,   \* _Cache._setitem_history: FIFO of <<stamp, key>>
    db_files,          \* the segment files, by ordinal + 1: their contents
    active_file,       \* _DBase._active_file: None, or the ordinal + 1 it writes
    stop_flag,         \* _DBase._stop_flag
    pc,                \* each caller thread's position
    frame,             \* each caller thread's locals
    jpc,               \* the janitor thread's position
    jframe,            \* the janitor's locals in _Cache.free_cache
    main,              \* the position of the thread that calls stop()
    tmp_dict,          \* the reference dict of the tests
    ncalls,            \* update/get calls issued so far
    open_handles,      \* the file objects that are open: [mode, file]
    nsetback,          \* how many times the system clock has been set back
    dir_files,         \* __init__: the directory, ordinal -> file contents
    dir_found,         \* the directory as __init__ found it
    files,             \* __init__: the local list files, a path by its ordinal
    idx,               \* __init__: the position of the loop of line 120
    cpc                \* the position of __init__

vars == <<cache_size, cache_duration, db_filesize, now, lock, cache_lock, index,
          cache, setitem_history, db_files, active_file, stop_flag, pc, frame,
          jpc, jframe, main, tmp_dict, ncalls, open_handles, nsetback,
          dir_files, dir_found, files, idx, cpc>>

\* the locals of __init__ and the directory it works on
startup == <<dir_files, dir_found, files, idx, cpc>>

config == <<cache_size, cache_duration, db_filesize>>

\* ------------------------------------------------------------ dict helpers
Put(d, k, v) == [x \in (DOMAIN d) \cup {k} |-> IF x = k THEN v ELSE d[x]]

Del(d, k) == [x \in (DOMAIN d) \ {k} |-> d[x]]

EmptyDict == [x \in {} |-> None]

\* --------------------------------------------------- record serialisation
RECURSIVE Digits(_)
Digits(n) == IF n < 10 THEN <<n>> ELSE Digits(n \div 10) \o <<n % 10>>

\* json.dumps(DB_TUPLE(stamp, key, value)) followed by end='\n'
Serialize(stamp, key, value) ==
    <<LB>> \o Digits(stamp) \o <<COMMA, SP>> \o Digits(key) \o <<COMMA, SP>>
           \o Digits(value) \o <<RB, NL>>

\* file.seek(offset); file.readline(): up to and including the next newline
RECURSIVE LineEnd(_, _)
LineEnd(content, i) ==
    IF i > Len(content) THEN Len(content)
    ELSE IF content[i] = NL THEN i
    ELSE LineEnd(content, i + 1)

ReadLine(content, offset) ==
    IF offset >= Len(content) THEN <<>>
    ELSE SubSeq(content, offset + 1, LineEnd(content, offset + 1))

\* json.loads: the numbers of a list "[a, b, c]", or <<>> when it is no list
RECURSIVE ParseItems(_, _, _, _)
ParseItems(line, i, acc, cur) ==
    IF i > Len(line) THEN <<>>
    ELSE LET c == line[i] IN
         IF c >= 0 THEN
             ParseItems(line, i + 1, acc, IF cur = NoNumber THEN c ELSE cur * 10 + c)
         ELSE IF c = SP /\ cur = NoNumber THEN ParseItems(line, i + 1, acc, cur)
         ELSE IF c = COMMA /\ cur # NoNumber THEN
             ParseItems(line, i + 1, Append(acc, cur), NoNumber)
         ELSE IF c = RB /\ cur # NoNumber THEN Append(acc, cur)
         ELSE <<>>

JsonLoads(line) ==
    IF Len(line) >= 2 /\ line[1] = LB /\ line[Len(line)] = NL
    THEN ParseItems(SubSeq(line, 2, Len(line) - 1), 1, <<>>, NoNumber)
    ELSE <<>>

\* line 229: _, _, value = json.loads(line)
RecordValue(line) ==
    LET items == JsonLoads(line) IN
    IF Len(items) = 3 THEN items[3] ELSE BadValue

\* the key field of a record line
RecordKey(line) ==
    LET items == JsonLoads(line) IN
    IF Len(items) = 3 THEN items[2] ELSE BadValue

\* self._active_file.tell()
Tell == Len(db_files[active_file])

\* ------------------------------------------------------------------- Init
NoFrame == [op |-> "none", key |-> None, value |-> None, default |-> None,
            bstamp |-> None, cstamp |-> None, ret |-> None]

NoJFrame == [key |-> None, stamp_operation |-> None, stamp_cache |-> None]

Init ==
    /\ cache_size \in CacheSizes
    /\ cache_duration \in CacheDurations
    /\ db_filesize \in DbFilesizes
    /\ now = 0
    /\ lock = FALSE
    /\ cache_lock = FALSE
    /\ index = EmptyDict
    /\ cache = EmptyDict
    /\ setitem_history = <<>>
    /\ db_files = <<>>
    /\ active_file = None
    /\ stop_flag = FALSE
    /\ pc = [t \in Threads |-> "idle"]
    /\ frame = [t \in Threads |-> NoFrame]
    /\ jpc = "j_loop"
    /\ jframe = NoJFrame
    /\ main = "running"
    /\ tmp_dict = EmptyDict
    /\ ncalls = 0
    /\ open_handles = {}
    /\ nsetback = 0
    /\ dir_files = EmptyDict
    /\ dir_found = EmptyDict
    /\ files = <<>>
    /\ idx = 0
    /\ cpc = "done"

\* ------------------------------------------------------------ the clock
Tick ==
    /\ now < MaxTime
    /\ now' = now + 1
    /\ UNCHANGED <<config, startup, nsetback, open_handles, lock, cache_lock,
                   index, cache, setitem_history, db_files, active_file,
                   stop_flag, pc, frame, jpc, jframe, main, tmp_dict, ncalls>>

\* mutant: acquire does not block
LockFreeAlways == TRUE

\* lines 189 / 214, self._lock.acquire(): blocks while the lock is held
LockFree == ~lock

\* ------------------------------------------------------- the caller threads
\* A caller thread starts a call of update or of get (the tests' loops).  The
\* engine is used until stop() is called (tests: db.stop() ends each run).
CallUpdate(t) ==
    /\ pc[t] = "idle"
    /\ main = "running"
    /\ ncalls < MaxCalls
    /\ ncalls' = ncalls + 1
    /\ pc' = [pc EXCEPT ![t] = "u_acquire"]
    /\ frame' = [frame EXCEPT ![t] = NoFrame]
    /\ UNCHANGED <<config, startup, nsetback, open_handles, now, lock,
                   cache_lock, index, cache, setitem_history, db_files,
                   active_file, stop_flag, jpc, jframe, main, tmp_dict>>

CallGet(t) ==
    /\ pc[t] = "idle"
    /\ main = "running"
    /\ ncalls < MaxCalls
    /\ ncalls' = ncalls + 1
    /\ pc' = [pc EXCEPT ![t] = "g_acquire"]
    /\ frame' = [frame EXCEPT ![t] = NoFrame]
    /\ UNCHANGED <<config, startup, nsetback, open_handles, now, lock,
                   cache_lock, index, cache, setitem_history, db_files,
                   active_file, stop_flag, jpc, jframe, main, tmp_dict>>

\* ----------------------------------------------------------- _DBase.update
\* mutant: the size test is not strict
NeedSwitchAtMax == active_file = None \/ Tell >= db_filesize

\* mutant: the size of the active segment is never tested
NeedSwitchFirstOnly == active_file = None

\* line 197: self._active_file is None or self._active_file.tell() > self._db_filesize
NeedSwitch == active_file = None \/ Tell > db_filesize

\* lines 172-186, _switch_active_db: the files and the writer after a rotation.
\* The new file's ordinal is _num_dbs = Len(db_files), which names no existing
\* file (only this engine creates segments), so line 178 never raises.
SwitchedFiles == Append(db_files, <<>>)

SwitchedActive == Len(db_files) + 1

\* lines 182-186: the new writer and reader are open, the previous writer is
\* closed
SwitchedHandles ==
    (open_handles \ {[mode |-> "w", file |-> active_file]})
        \cup {[mode |-> "w", file |-> SwitchedActive],
              [mode |-> "r", file |-> SwitchedActive]}

\* lines 189-202: acquire, stamp the record, rotate the segment if needed, stamp
\* the cache entry.  The two readings of the clock (lines 192 and 201) are one
\* reading here: the record's stamp is written to disk and never read back.
UpdateAcquire(t, k, v) ==
    /\ pc[t] = "u_acquire"
    /\ LockFree
    /\ lock' = TRUE
    /\ frame' = [frame EXCEPT ![t] = [NoFrame EXCEPT !.op = "update", !.key = k,
                                          !.value = v, !.bstamp = now, !.cstamp = now]]
    /\ tmp_dict' = Put(tmp_dict, k, v)
    /\ IF NeedSwitch
       THEN /\ db_files' = SwitchedFiles
            /\ active_file' = SwitchedActive
            /\ open_handles' = SwitchedHandles
       ELSE UNCHANGED <<db_files, active_file, open_handles>>
    /\ pc' = [pc EXCEPT ![t] = "s_len"]
    /\ UNCHANGED <<config, startup, nsetback, now, cache_lock, index, cache,
                   setitem_history, stop_flag, jpc, jframe, main, ncalls>>

\* mutant: the write cursor read after the record is written
IndexOffsetAfterWrite(line) == Tell + Len(line)

\* line 206: the offset update stores in the index, read before the record is
\* written (line 209)
IndexOffset(line) == Tell

\* lines 204-211: index the record, write it, release, return
UpdateWrite(t) ==
    /\ LET line == Serialize(frame[t].bstamp, frame[t].key, frame[t].value) IN
       /\ index' = Put(index, frame[t].key,
                       [file |-> Len(db_files), offset |-> IndexOffset(line)])
       /\ db_files' = [db_files EXCEPT ![active_file] = @ \o line]
    /\ lock' = FALSE
    /\ pc' = [pc EXCEPT ![t] = "idle"]
    /\ frame' = [frame EXCEPT ![t] = NoFrame]

\* -------------------------------------------------------------- _DBase.get
\* line 218: what becomes of the engine lock when the key is not in the index
LockAfterMissingKey == TRUE

\* mutant: the default argument is ignored
MissingKeyResultNone(d) == None

\* line 218: return default
MissingKeyResult(d) == d

\* lines 226-229: read the record at the indexed offset
DiskValue(k) == RecordValue(ReadLine(db_files[index[k].file], index[k].offset))

\* lines 214-221 and, on a cache miss, 226-232: acquire; a key absent from the
\* index returns the default; otherwise the cache membership check, and on a
\* miss the disk read and the stamp of the new cache entry.
GetAcquire(t, k, d) ==
    /\ pc[t] = "g_acquire"
    /\ LockFree
    /\ IF k \notin DOMAIN index
       THEN /\ lock' = LockAfterMissingKey
            /\ frame' = [frame EXCEPT ![t] = [NoFrame EXCEPT !.key = k,
                                 !.default = d, !.ret = MissingKeyResult(d)]]
            /\ pc' = [pc EXCEPT ![t] = "idle"]
       ELSE /\ lock' = TRUE
            /\ IF k \in DOMAIN cache
               THEN /\ pc' = [pc EXCEPT ![t] = "g_hit"]
                    /\ frame' = [frame EXCEPT ![t] = [NoFrame EXCEPT !.op = "get",
                                                          !.key = k, !.default = d]]
               ELSE /\ pc' = [pc EXCEPT ![t] = "s_len"]
                    /\ frame' = [frame EXCEPT ![t] = [NoFrame EXCEPT !.op = "get",
                                     !.key = k, !.default = d, !.value = DiskValue(k),
                                     !.cstamp = now]]
    /\ UNCHANGED <<config, startup, nsetback, open_handles, now, cache_lock,
                   index, cache, setitem_history, db_files, active_file,
                   stop_flag, jpc, jframe, main, tmp_dict, ncalls>>

\* line 223, _SafeDict.__getitem__ (lines 15-19): a missing key raises KeyError
\* between acquire and release, and the call ends with both locks held
GetHit(t) ==
    /\ pc[t] = "g_hit"
    /\ ~cache_lock
    /\ IF frame[t].key \in DOMAIN cache
       THEN /\ frame' = [frame EXCEPT ![t].value = cache[frame[t].key].value]
            /\ pc' = [pc EXCEPT ![t] = "c_stamp"]
            /\ UNCHANGED cache_lock
       ELSE /\ cache_lock' = TRUE
            /\ pc' = [pc EXCEPT ![t] = "raised"]
            /\ frame' = [frame EXCEPT ![t] = NoFrame]
    /\ UNCHANGED <<config, startup, nsetback, open_handles, now, lock, index,
                   cache, setitem_history, db_files, active_file, stop_flag,
                   jpc, jframe, main, tmp_dict, ncalls>>

\* line 232, on a cache hit: stamp=time.time()
CacheStamp(t) ==
    /\ pc[t] = "c_stamp"
    /\ frame' = [frame EXCEPT ![t].cstamp = now]
    /\ pc' = [pc EXCEPT ![t] = "s_len"]
    /\ UNCHANGED <<config, startup, nsetback, open_handles, now, lock,
                   cache_lock, index, cache, setitem_history, db_files,
                   active_file, stop_flag, jpc, jframe, main, tmp_dict, ncalls>>

\* lines 235-236: release, return value (the local frame[t].value)
GetRelease(t) ==
    /\ lock' = FALSE
    /\ frame' = [frame EXCEPT ![t] = NoFrame]
    /\ pc' = [pc EXCEPT ![t] = "idle"]
    /\ UNCHANGED <<index, db_files>>

\* ------------------------------------------- self._cache[key] = CACHE_TUPLE
\* the rest of the call once _Cache.__setitem__ has returned
AfterSet(t) == IF frame[t].op = "update" THEN UpdateWrite(t) ELSE GetRelease(t)

\* mutant: the capacity test is strict
CacheFullStrict == Cardinality(DOMAIN cache) > cache_size

\* line 41, left operand: len(self) >= self._cache_size
CacheFull == Cardinality(DOMAIN cache) >= cache_size

SetLen(t) ==
    /\ pc[t] = "s_len"
    /\ pc' = [pc EXCEPT ![t] = IF CacheFull THEN "s_in" ELSE "s_put"]
    /\ UNCHANGED <<config, startup, nsetback, open_handles, now, lock,
                   cache_lock, index, cache, setitem_history, db_files,
                   active_file, stop_flag, frame, jpc, jframe, main, tmp_dict,
                   ncalls>>

\* mutant: the residency test is dropped, every key is admitted
NotResidentNever(k) == FALSE

\* line 41, right operand: key not in self
NotResident(k) == k \notin DOMAIN cache

\* line 41, right operand, and line 42: a key that is not resident is refused,
\* and the call goes on after the cache set
SetIn(t) ==
    /\ pc[t] = "s_in"
    /\ IF NotResident(frame[t].key)
       THEN AfterSet(t)
       ELSE /\ pc' = [pc EXCEPT ![t] = "s_put"]
            /\ UNCHANGED <<lock, index, db_files, frame>>
    /\ UNCHANGED <<config, startup, nsetback, open_handles, now, cache_lock,
                   cache, setitem_history, active_file, stop_flag, jpc, jframe,
                   main, tmp_dict, ncalls>>

\* line 43: self._setitem_history.put((time.time(), key))
SetPut(t) ==
    /\ pc[t] = "s_put"
    /\ setitem_history' = Append(setitem_history, <<now, frame[t].key>>)
    /\ pc' = [pc EXCEPT ![t] = "s_store"]
    /\ UNCHANGED <<config, startup, nsetback, open_handles, now, lock,
                   cache_lock, index, cache, db_files, active_file, stop_flag,
                   frame, jpc, jframe, main, tmp_dict, ncalls>>

\* line 44, _SafeDict.__setitem__ (lines 21-24), then the rest of the call
SetStore(t) ==
    /\ pc[t] = "s_store"
    /\ ~cache_lock
    /\ cache' = Put(cache, frame[t].key,
                    [stamp |-> frame[t].cstamp, value |-> frame[t].value])
    /\ AfterSet(t)
    /\ UNCHANGED <<config, startup, nsetback, open_handles, now, cache_lock,
                   setitem_history, active_file, stop_flag, jpc, jframe, main,
                   tmp_dict, ncalls>>

\* ------------------------------------------------------ the janitor thread
\* mutant: the janitor runs the protocol at any occupancy
BelowGateNever == FALSE

\* line 159: len(self._cache) < self._cache_size * 0.8
BelowGate == 10 * Cardinality(DOMAIN cache) < 8 * cache_size

\* line 48: self._setitem_history.unfinished_tasks
unfinished_tasks == Len(setitem_history)

\* lines 156-162 and 48-51: one turn of the loop, up to the dequeue.  A turn
\* that only sleeps (lines 160 and 49) changes nothing.
JanitorLoop ==
    /\ jpc = "j_loop"
    /\ IF stop_flag
       THEN /\ jpc' = "j_done"
            /\ UNCHANGED <<setitem_history, jframe>>
       ELSE IF BelowGate \/ unfinished_tasks = 0
       THEN UNCHANGED <<jpc, setitem_history, jframe>>
       ELSE /\ jframe' = [NoJFrame EXCEPT !.key = Head(setitem_history)[2],
                              !.stamp_operation = Head(setitem_history)[1]]
            /\ setitem_history' = Tail(setitem_history)
            /\ jpc' = "j_in"
    /\ UNCHANGED <<config, startup, nsetback, open_handles, now, lock,
                   cache_lock, index, cache, db_files, active_file, stop_flag,
                   pc, frame, main, tmp_dict, ncalls>>

\* mutant: the ticket's key is taken to be in the cache
TicketKeyAbsentNever == FALSE

\* line 52: key not in self
TicketKeyAbsent == jframe.key \notin DOMAIN cache

\* lines 52-53
JanitorIn ==
    /\ jpc = "j_in"
    /\ jpc' = IF TicketKeyAbsent THEN "j_loop" ELSE "j_read"
    /\ jframe' = IF TicketKeyAbsent THEN NoJFrame ELSE jframe
    /\ UNCHANGED <<config, startup, nsetback, open_handles, now, lock,
                   cache_lock, index, cache, setitem_history, db_files,
                   active_file, stop_flag, pc, frame, main, tmp_dict, ncalls>>

\* lines 63 / 75: abs(stamp_cache - stamp_operation) < 1e-1
SameStamp(stamp_cache, stamp_operation) ==
    IF stamp_cache >= stamp_operation
    THEN stamp_cache - stamp_operation < Epsilon
    ELSE stamp_operation - stamp_cache < Epsilon

\* line 54, _SafeDict.__getitem__: read the entry's stamp
JanitorRead ==
    /\ jpc = "j_read"
    /\ ~cache_lock
    /\ IF jframe.key \notin DOMAIN cache
       THEN /\ cache_lock' = TRUE
            /\ jpc' = "j_raised"
            /\ UNCHANGED jframe
       ELSE /\ UNCHANGED cache_lock
            /\ jframe' = [jframe EXCEPT !.stamp_cache = cache[jframe.key].stamp]
            /\ jpc' = "j_clock"
    /\ UNCHANGED <<config, startup, nsetback, open_handles, now, lock, index,
                   cache, setitem_history, db_files, active_file, stop_flag, pc,
                   frame, main, tmp_dict, ncalls>>

\* mutant: the clock is not compared with the stamps
ClockChangedIgnored(stamp_cache, stamp_operation) == FALSE

\* line 58: current_time < stamp_cache or current_time < stamp_operation
ClockChanged(stamp_cache, stamp_operation) ==
    now < stamp_cache \/ now < stamp_operation

\* lines 57-64: read the clock, the clock check, the first stamp check
JanitorClock ==
    /\ jpc = "j_clock"
    /\ IF \/ ClockChanged(jframe.stamp_cache, jframe.stamp_operation)
          \/ ~SameStamp(jframe.stamp_cache, jframe.stamp_operation)
       THEN jpc' = "j_loop" /\ jframe' = NoJFrame
       ELSE jpc' = "j_wait" /\ jframe' = [jframe EXCEPT !.stamp_cache = None]
    /\ UNCHANGED <<config, startup, nsetback, open_handles, now, lock,
                   cache_lock, index, cache, setitem_history, db_files,
                   active_file, stop_flag, pc, frame, main, tmp_dict, ncalls>>

\* mutant: the janitor does not wait for the ticket to age
OldEnoughAtOnce(stamp_operation) == TRUE

\* line 69: current_time - stamp_operation > self._cache_duration
OldEnough(stamp_operation) == now - stamp_operation > cache_duration

\* lines 67-71: the polling wait ends once the ticket is old enough
JanitorWait ==
    /\ jpc = "j_wait"
    /\ OldEnough(jframe.stamp_operation)
    /\ jpc' = "j_recheck"
    /\ UNCHANGED <<config, startup, nsetback, open_handles, now, lock,
                   cache_lock, index, cache, setitem_history, db_files,
                   active_file, stop_flag, pc, frame, jframe, main, tmp_dict,
                   ncalls>>

\* lines 74-76: the second stamp check
JanitorRecheck ==
    /\ jpc = "j_recheck"
    /\ ~cache_lock
    /\ IF jframe.key \notin DOMAIN cache
       THEN /\ cache_lock' = TRUE
            /\ jpc' = "j_raised"
            /\ UNCHANGED jframe
       ELSE /\ UNCHANGED cache_lock
            /\ IF SameStamp(cache[jframe.key].stamp, jframe.stamp_operation)
               THEN jpc' = "j_del" /\ UNCHANGED jframe
               ELSE jpc' = "j_loop" /\ jframe' = NoJFrame
    /\ UNCHANGED <<config, startup, nsetback, open_handles, now, lock, index,
                   cache, setitem_history, db_files, active_file, stop_flag, pc,
                   frame, main, tmp_dict, ncalls>>

\* line 77, _SafeDict.__delitem__
JanitorDel ==
    /\ jpc = "j_del"
    /\ ~cache_lock
    /\ IF jframe.key \notin DOMAIN cache
       THEN /\ cache_lock' = TRUE
            /\ jpc' = "j_raised"
            /\ UNCHANGED <<cache, jframe>>
       ELSE /\ cache' = Del(cache, jframe.key)
            /\ jpc' = "j_loop"
            /\ jframe' = NoJFrame
            /\ UNCHANGED cache_lock
    /\ UNCHANGED <<config, startup, nsetback, open_handles, now, lock, index,
                   setitem_history, db_files, active_file, stop_flag, pc, frame,
                   main, tmp_dict, ncalls>>

\* ------------------------------------------------------------ _DBase.stop
\* line 169; the tests call stop() once their callers are done
StopCall ==
    /\ main = "running"
    /\ \A t \in Threads : pc[t] \in {"idle", "raised"}
    /\ stop_flag' = TRUE
    /\ main' = "joining"
    /\ UNCHANGED <<config, startup, nsetback, open_handles, now, lock,
                   cache_lock, index, cache, setitem_history, db_files,
                   active_file, pc, frame, jpc, jframe, tmp_dict, ncalls>>

\* Thread.join returns once the thread's run has ended, by the break of line
\* 158 or by an exception
JanitorTerminated == jpc \in {"j_done", "j_raised"}

\* line 170
StopJoin ==
    /\ main = "joining"
    /\ JanitorTerminated
    /\ main' = "stopped"
    /\ UNCHANGED <<config, startup, nsetback, open_handles, now, lock,
                   cache_lock, index, cache, setitem_history, db_files,
                   active_file, stop_flag, pc, frame, jpc, jframe, tmp_dict,
                   ncalls>>

\* --------------------------------------------------------- _DBase.__del__
\* lines 145-147: when the engine object is discarded after stop(), the read
\* handles of self._db_files are closed; self._active_file is not among them
ClosedByDel == {h \in open_handles : h.mode = "r" /\ h.file \in 1..Len(db_files)}

DBaseDel ==
    /\ main = "stopped"
    /\ main' = "deleted"
    /\ open_handles' = open_handles \ ClosedByDel
    /\ UNCHANGED <<config, startup, nsetback, now, lock, cache_lock, index,
                   cache, setitem_history, db_files, active_file, stop_flag, pc,
                   frame, jpc, jframe, tmp_dict, ncalls>>

\* ------------------------------------------------------------------- Next
Caller(t) ==
    \/ CallUpdate(t)
    \/ CallGet(t)
    \/ \E k \in Keys, v \in Values : UpdateAcquire(t, k, v)
    \/ \E k \in Keys, d \in Defaults : GetAcquire(t, k, d)
    \/ GetHit(t)
    \/ CacheStamp(t)
    \/ SetLen(t)
    \/ SetIn(t)
    \/ SetPut(t)
    \/ SetStore(t)

Janitor ==
    \/ JanitorLoop
    \/ JanitorIn
    \/ JanitorRead
    \/ JanitorClock
    \/ JanitorWait
    \/ JanitorRecheck
    \/ JanitorDel

Next ==
    \/ \E t \in Threads : Caller(t)
    \/ Janitor
    \/ StopCall
    \/ StopJoin
    \/ DBaseDel
    \/ Tick

Spec == Init /\ [][Next]_vars

\* ------------------------------------------------- _DBase.__init__, startup
\* Construction over a directory that already holds segment files.  A path
\* storage.<ordinal>.db is its ordinal; entries that lines 111-115 skip play
\* no part.
Ordinals == 0..MaxOrdinal

\* what an existing segment may hold: records of an earlier run
FoundContents == {Serialize(0, 1, 5), Serialize(1, 2, 12)}

Directories == UNION {[S -> FoundContents] : S \in SUBSET Ordinals}

InitStartup ==
    /\ cache_size \in CacheSizes
    /\ cache_duration \in CacheDurations
    /\ db_filesize \in DbFilesizes
    /\ now = 0
    /\ lock = FALSE
    /\ cache_lock = FALSE
    /\ index = EmptyDict
    /\ cache = EmptyDict
    /\ setitem_history = <<>>
    /\ db_files = <<>>
    /\ active_file = None
    /\ stop_flag = FALSE
    /\ pc = [t \in Threads |-> "idle"]
    /\ frame = [t \in Threads |-> NoFrame]
    /\ jpc = "j_new"
    /\ jframe = NoJFrame
    /\ main = "constructing"
    /\ tmp_dict = EmptyDict
    /\ ncalls = 0
    /\ open_handles = {}
    /\ nsetback = 0
    /\ dir_files \in Directories
    /\ dir_found = dir_files
    /\ files = <<>>
    /\ idx = 0
    /\ cpc = "scan"

\* mutant: the files are taken in descending order of ordinal
RECURSIVE SortedDescending(_)
SortedDescending(S) ==
    IF S = {} THEN <<>>
    ELSE LET m == CHOOSE x \in S : \A y \in S : y <= x
         IN  <<m>> \o SortedDescending(S \ {m})

\* line 117: sorted(files, key=lambda item: int(item.name.split('.')[1]))
RECURSIVE Sorted(_)
Sorted(S) ==
    IF S = {} THEN <<>>
    ELSE LET m == CHOOSE x \in S : \A y \in S : x <= y
         IN  <<m>> \o Sorted(S \ {m})

\* lines 108-117: list the segment files and sort them by ordinal
Scan ==
    /\ cpc = "scan"
    /\ files' = Sorted(DOMAIN dir_files)
    /\ idx' = 0
    /\ cpc' = "repair"
    /\ UNCHANGED <<config, now, lock, cache_lock, index, cache, setitem_history,
                   db_files, active_file, stop_flag, pc, frame, jpc, jframe,
                   main, tmp_dict, ncalls, open_handles, nsetback, dir_files,
                   dir_found>>

\* line 128, file.replace(new_file): the directory after the rename
Replaced(db_idx, new_idx) ==
    [o \in ((DOMAIN dir_files) \ {db_idx}) \cup {new_idx} |->
        IF o = new_idx THEN dir_files[db_idx] ELSE dir_files[o]]

\* lines 120-129: one turn of the loop.  The assert of line 127 ends the
\* construction with an AssertionError.
Repair ==
    /\ cpc = "repair"
    /\ idx < Len(files)
    /\ LET db_idx == files[idx + 1] IN
       IF db_idx = idx
       THEN /\ idx' = idx + 1
            /\ UNCHANGED <<dir_files, files, cpc>>
       ELSE IF idx \in DOMAIN dir_files
       THEN /\ cpc' = "assert"
            /\ UNCHANGED <<dir_files, files, idx>>
       ELSE /\ dir_files' = Replaced(db_idx, idx)
            /\ files' = [files EXCEPT ![idx + 1] = idx]
            /\ idx' = idx + 1
            /\ UNCHANGED cpc
    /\ UNCHANGED <<config, now, lock, cache_lock, index, cache, setitem_history,
                   db_files, active_file, stop_flag, pc, frame, jpc, jframe,
                   main, tmp_dict, ncalls, open_handles, nsetback, dir_found>>

\* lines 132-141: open a read handle on every file, no active writer, start
\* the janitor thread; the constructor returns
OpenFiles ==
    /\ cpc = "repair"
    /\ idx = Len(files)
    /\ db_files' = [i \in 1..Len(files) |-> dir_files[files[i]]]
    /\ open_handles' = {[mode |-> "r", file |-> i] : i \in 1..Len(files)}
    /\ active_file' = None
    /\ stop_flag' = FALSE
    /\ jpc' = "j_loop"
    /\ cpc' = "done"
    /\ main' = "running"
    /\ UNCHANGED <<config, now, lock, cache_lock, index, cache, setitem_history,
                   pc, frame, jframe, tmp_dict, ncalls, nsetback, dir_files,
                   dir_found, files, idx>>

NextStartup == Scan \/ Repair \/ OpenFiles

SpecStartup == InitStartup /\ [][NextStartup]_vars

\* ------------------------------------------------ a clock that is set back
\* time.time() is the system clock, which an adjustment can set back at any
\* moment (the case lines 56-60 are written for): by one tick at a time, at
\* most MaxSetBack times.
ClockSetBack ==
    /\ now > 0
    /\ nsetback < MaxSetBack
    /\ nsetback' = nsetback + 1
    /\ now' = now - 1
    /\ UNCHANGED <<config, startup, open_handles, lock, cache_lock, index,
                   cache, setitem_history, db_files, active_file, stop_flag, pc,
                   frame, jpc, jframe, main, tmp_dict, ncalls>>

NextSkew == Next \/ ClockSetBack

SpecSkew == Init /\ [][NextSkew]_vars

\* ------------------------------------------------- an engine with a full cache
\* The engine after a first thread has run update(1, 5) and then update(k, 5)
\* for k = 1..WarmSize, all within the first tick, on an engine built with
\* cache_size = WarmSize: the janitor, which found the cache empty when it
\* started, is still in its first sleep of line 160.  The state is computed
\* by running lines 192-209 over these calls.
WarmCalls == <<1>> \o [k \in 1..WarmSize |-> k]

RECURSIVE WarmDisk(_)
WarmDisk(n) ==
    IF n = 0 THEN [db_files |-> <<>>, index |-> EmptyDict]
    ELSE LET before == WarmDisk(n - 1)
             old == before.db_files
             switch == old = <<>> \/ Len(old[Len(old)]) > SegmentBytes
             segs == IF switch THEN Append(old, <<>>) ELSE old
             last == Len(segs)
         IN  [db_files |-> [segs EXCEPT ![last] = @ \o Serialize(0, WarmCalls[n], 5)],
              index |-> Put(before.index, WarmCalls[n],
                            [file |-> last, offset |-> Len(segs[last])])]

InitWarm ==
    /\ cache_size = WarmSize
    /\ cache_duration \in CacheDurations
    /\ db_filesize = SegmentBytes
    /\ now = 0
    /\ lock = FALSE
    /\ cache_lock = FALSE
    /\ index = WarmDisk(Len(WarmCalls)).index
    /\ cache = [k \in 1..WarmSize |-> [stamp |-> 0, value |-> 5]]
    /\ setitem_history = [i \in 1..Len(WarmCalls) |-> <<0, WarmCalls[i]>>]
    /\ db_files = WarmDisk(Len(WarmCalls)).db_files
    /\ active_file = Len(db_files)
    /\ stop_flag = FALSE
    /\ pc = [t \in Threads |-> "idle"]
    /\ frame = [t \in Threads |-> NoFrame]
    /\ jpc = "j_loop"
    /\ jframe = NoJFrame
    /\ main = "running"
    /\ tmp_dict = [k \in 1..WarmSize |-> 5]
    /\ ncalls = 0
    /\ open_handles = {[mode |-> "r", file |-> i] : i \in 1..Len(db_files)}
                          \cup {[mode |-> "w", file |-> Len(db_files)]}
    /\ nsetback = 0
    /\ dir_files = EmptyDict
    /\ dir_found = EmptyDict
    /\ files = <<>>
    /\ idx = 0
    /\ cpc = "done"

\* The janitor thread and the thread in stop() are scheduled, and time
\* advances.  Every ticket that reaches the janitor's wait here is old enough
\* by MaxTime, so the bound on the clock ends no wait early.
FairWarm ==
    /\ WF_vars(Janitor)
    /\ WF_vars(StopJoin)
    /\ WF_vars(Tick)

SpecWarm == InitWarm /\ [][Next]_vars /\ FairWarm

\* ================================================================ claims
\* positions inside the body of update or get, between acquire and return
Body == {"g_hit", "c_stamp", "s_len", "s_in", "s_put", "s_store"}

InBody(t) == pc[t] \in Body

\* thread t returns from its call in this step
Returns(t) == InBody(t) /\ pc'[t] = "idle"

\* C1: a get that returns for a key that has been updated returns the value of
\* the most recent update of that key (the tests' reference dict), whether the
\* value came from the cache or from the disk read at the indexed offset.
C1_RoundTrip ==
    [][\A t \in Threads :
         (frame[t].op = "get" /\ Returns(t))
             => /\ frame[t].key \in DOMAIN tmp_dict
                /\ frame[t].value = tmp_dict[frame[t].key]]_vars

\* C1 witness: with no cache at all, a get in flight holds the value of the
\* overwriting update, read from disk at a non-zero offset.
C1_Witness ==
    \E t \in Threads :
        /\ cache_size = 0
        /\ frame[t].op = "get"
        /\ pc[t] = "s_in"
        /\ index[frame[t].key].offset > 0
        /\ frame[t].value = 12
        /\ frame[t].value = tmp_dict[frame[t].key]

\* C2 (as claimed): a get of an indexed key never raises, whatever the janitor
\* does between get's membership check and its read of the cache entry.
C2_GetNeverRaises == \A t \in Threads : pc[t] # "raised"

\* C3: get(k, default=D) for a key never updated returns D without raising and
\* leaves the index, the cache, the ticket queue and the segments unchanged.
C3_MissingKey ==
    [][\A t \in Threads :
         (/\ pc[t] = "g_acquire"
          /\ pc'[t] # "g_acquire"
          /\ frame'[t].key \notin DOMAIN tmp_dict)
             => /\ pc'[t] = "idle"
                /\ frame'[t].ret = frame'[t].default
                /\ UNCHANGED <<index, cache, setitem_history, db_files,
                               active_file>>]_vars

\* C3 witness: a get of a never-updated key has returned its default 7 while
\* another key is indexed.
C3_Witness ==
    \E t \in Threads :
        /\ pc[t] = "idle"
        /\ frame[t].ret = 7
        /\ frame[t].key \in Keys \ DOMAIN tmp_dict
        /\ DOMAIN index # {}

\* C4 (as claimed): every call that acquired the engine lock has released it
\* when it returns, so the lock is free whenever no call is inside its body.
C4_LockReleased ==
    (\A t \in Threads : pc[t] \in {"idle", "u_acquire", "g_acquire"}) => ~lock

\* C5: the bodies of update and get never overlap, and whenever no call is
\* inside its body the index holds exactly the updated keys, each pointing at
\* the record of its last update in lock-acquisition order.
C5_Concurrent ==
    /\ Cardinality({t \in Threads : InBody(t)}) <= 1
    /\ (\A t \in Threads : ~InBody(t))
           => /\ DOMAIN index = DOMAIN tmp_dict
              /\ \A k \in DOMAIN index :
                    LET line == ReadLine(db_files[index[k].file], index[k].offset)
                    IN  RecordKey(line) = k /\ RecordValue(line) = tmp_dict[k]

\* C5 witness: thread 1 is inside an update that overwrites a key thread 2 wrote
\* (the index still points at the old record) while thread 2's next call waits
\* for the lock.
C5_Witness ==
    /\ pc[1] = "s_store"
    /\ pc[2] = "u_acquire"
    /\ frame[1].op = "update"
    /\ frame[1].value = 12
    /\ frame[1].key \in DOMAIN index
    /\ DiskValue(frame[1].key) = 5

\* C6: the cache never holds more than cache_size entries.
C6_Capacity == Cardinality(DOMAIN cache) <= cache_size

\* C6 witness: the cache is full and a set for the resident key is about to
\* store its entry again.
C6_Witness ==
    \E t \in Threads :
        /\ cache_size = 1
        /\ Cardinality(DOMAIN cache) = 1
        /\ pc[t] = "s_store"
        /\ frame[t].key \in DOMAIN cache

\* C7: a cache set for a key that is not resident while the cache is full is
\* refused: it changes neither the cache nor the ticket queue, the key stays
\* out of the cache, and the surrounding update still indexes and writes the
\* record, which a later get reads back from disk.
C7_Admission ==
    /\ [][\A t \in Threads :
            (pc[t] = "s_len" /\ pc'[t] # "s_len"
                 /\ Cardinality(DOMAIN cache) >= cache_size
                 /\ frame[t].key \notin DOMAIN cache)
                => pc'[t] = "s_in"]_vars
    /\ [][\A t \in Threads :
            (pc[t] = "s_in" /\ frame[t].key \notin DOMAIN cache)
                => /\ frame[t].key \notin DOMAIN cache'
                   /\ pc'[t] # "s_in"
                         => /\ pc'[t] = "idle"
                            /\ UNCHANGED <<cache, setitem_history>>
                   /\ (pc'[t] # "s_in" /\ frame[t].op = "update")
                         => /\ frame[t].key \in DOMAIN index'
                            /\ RecordValue(ReadLine(
                                   db_files'[index'[frame[t].key].file],
                                   index'[frame[t].key].offset)) = frame[t].value]_vars
    /\ [][\A t \in Threads :
            (pc[t] = "g_acquire" /\ pc'[t] = "s_len")
                => /\ frame'[t].key \notin DOMAIN cache
                   /\ frame'[t].value = tmp_dict[frame'[t].key]]_vars

\* C7 witness: capacity 1, key 1 resident, key 2 written but refused by the
\* cache, and a get of key 2 holds its written value read from disk.
C7_Witness ==
    \E t \in Threads :
        /\ cache_size = 1
        /\ DOMAIN cache = {1}
        /\ frame[t].op = "get"
        /\ frame[t].key = 2
        /\ pc[t] = "s_in"
        /\ frame[t].value = tmp_dict[2]

JanitorIdle == jpc = "j_loop" /\ (BelowGate \/ unfinished_tasks = 0)

\* entry k has not been stamped for longer than cache_duration
Expired(k) == now - cache[k].stamp > cache_duration

\* C9 (as claimed): an entry untouched for longer than cache_duration is
\* eventually absent while the janitor runs.  Stated for the states from which
\* nothing but the clock moves until the next call: no call is in progress,
\* stop() has not been called and the janitor has nothing to do.  There the
\* cache must hold no expired entry, for none would ever be removed.
C9_Expiry ==
    (/\ ~stop_flag
     /\ JanitorIdle
     /\ \A t \in Threads : pc[t] = "idle")
        => \A k \in DOMAIN cache : ~Expired(k)

\* C10: an update that finds no active segment, or the write cursor strictly
\* above db_filesize, adds exactly one segment and makes it the active one;
\* any other update leaves the segments as they are; and every record is
\* appended to the highest-ordinal segment, which is the active one, and is
\* indexed there.
C10_Rotation ==
    /\ [][\A t \in Threads :
            (pc[t] = "u_acquire" /\ pc'[t] # "u_acquire")
                => IF active_file = None
                      \/ Len(db_files[active_file]) > db_filesize
                   THEN /\ Len(db_files') = Len(db_files) + 1
                        /\ active_file' = Len(db_files')
                        /\ db_files'[active_file'] = <<>>
                        /\ SubSeq(db_files', 1, Len(db_files)) = db_files
                   ELSE UNCHANGED <<db_files, active_file>>]_vars
    /\ [][\A t \in Threads :
            (frame[t].op = "update" /\ Returns(t))
                => /\ active_file = Len(db_files)
                   /\ UNCHANGED active_file
                   /\ Len(db_files') = Len(db_files)
                   /\ \A i \in 1..Len(db_files) :
                        db_files'[i] = IF i = Len(db_files)
                                       THEN db_files[i] \o Serialize(frame[t].bstamp,
                                                frame[t].key, frame[t].value)
                                       ELSE db_files[i]
                   /\ index'[frame[t].key].file = Len(db_files)]_vars
    /\ [][db_files' # db_files
              => \E t \in Threads :
                    \/ pc[t] = "u_acquire" /\ pc'[t] # "u_acquire"
                    \/ frame[t].op = "update" /\ Returns(t)]_vars

\* C10 witness: the first segment took a second record with its cursor exactly
\* at db_filesize, and the next update, finding the cursor above it, rotated.
C10_Witness ==
    /\ Len(db_files) = 2
    /\ Len(db_files[1]) = 21
    /\ Len(db_files[2]) > 0

\* C11: bounded overshoot.  In every reachable state each segment is at most
\* db_filesize plus the length of its last record long; a record is appended
\* only to the active segment and only at a write cursor that is at or below
\* db_filesize; and a segment that is no longer the highest one never changes.
C11_Overshoot ==
    /\ [](\A i \in 1..Len(db_files) :
            LET content == db_files[i]
                starts == {o \in 0..Len(content) :
                              o = 0 \/ (o < Len(content) /\ content[o] = NL)}
                last == CHOOSE o \in starts : \A q \in starts : q <= o
            IN  Len(content) <= db_filesize + (Len(content) - last))
    /\ [][\A i \in 1..Len(db_files) :
            (i <= Len(db_files') /\ db_files'[i] # db_files[i])
                => /\ i = active_file
                   /\ i = Len(db_files)
                   /\ Len(db_files[i]) <= db_filesize
                   /\ Len(db_files'[i]) > Len(db_files[i])
                   /\ SubSeq(db_files'[i], 1, Len(db_files[i])) = db_files[i]]_vars
    /\ [][Len(db_files') >= Len(db_files)]_vars

\* C11 witness: the first segment took a record at a cursor of exactly
\* db_filesize, ended above it, and has been rotated out.
C11_Witness ==
    /\ Len(db_files) = 2
    /\ Len(db_files[1]) = 2 * db_filesize
    /\ active_file = 2

\* C12: startup repair.  Construction over n segment files with distinct
\* ordinals never fails the assert of line 127, and when it has returned the
\* directory holds exactly the ordinals 0..n-1, the file that had the i-th
\* smallest ordinal is at ordinal i-1 with its contents unchanged, the engine
\* has n segments in that order, a read handle on each, and no active writer.
C12_StartupRepair ==
    /\ cpc # "assert"
    /\ cpc = "done" =>
        LET n == Cardinality(DOMAIN dir_found)
            nth(i) == CHOOSE o \in DOMAIN dir_found :
                         Cardinality({q \in DOMAIN dir_found : q < o}) = i - 1
        IN  /\ DOMAIN dir_files = 0..(n - 1)
            /\ \A i \in 1..n : dir_files[i - 1] = dir_found[nth(i)]
            /\ Len(db_files) = n
            /\ \A i \in 1..n : db_files[i] = dir_found[nth(i)]
            /\ open_handles = {[mode |-> "r", file |-> i] : i \in 1..n}
            /\ active_file = None

\* C12 witness: construction has returned over the ordinals {0, 2}, which held
\* different contents.
C12_Witness ==
    /\ cpc = "done"
    /\ DOMAIN dir_found = {0, 2}
    /\ dir_found[0] # dir_found[2]
    /\ dir_files[1] = dir_found[2]

\* C13: shutdown.  When stop() has returned, the janitor thread has terminated
\* and no segment handle is open any more, neither a read handle nor the
\* active writer.
C13_Shutdown ==
    main = "stopped" => (jpc \in {"j_done", "j_raised"} /\ open_handles = {})

\* C14: the index offset contract.  Whenever the engine lock is free, each
\* index entry names an existing segment and an offset at which a record
\* begins; the line read there is a record of that key carrying the value of
\* the key's most recent update; and no record of the key lies after it, in
\* the same segment or in a later one, so the entry is the newest record.
C14_IndexOffset ==
    ~lock =>
        \A k \in DOMAIN index :
            LET e == index[k]
                begins(f, o) == /\ o < Len(db_files[f])
                                /\ (o = 0 \/ db_files[f][o] = NL)
            IN  /\ e.file \in 1..Len(db_files)
                /\ begins(e.file, e.offset)
                /\ RecordKey(ReadLine(db_files[e.file], e.offset)) = k
                /\ RecordValue(ReadLine(db_files[e.file], e.offset)) = tmp_dict[k]
                /\ \A f \in 1..Len(db_files) :
                     \A o \in 0..Len(db_files[f]) :
                        (/\ begins(f, o)
                         /\ (f > e.file \/ (f = e.file /\ o > e.offset)))
                            => RecordKey(ReadLine(db_files[f], o)) # k

\* C14 witness: a key was updated, and updated again after a rotation; the
\* lock is free, the index names the record in the second segment and the
\* older record of the key is still in the first.
C14_Witness ==
    /\ ~lock
    /\ \E k \in DOMAIN index :
        /\ index[k].file = 2
        /\ RecordKey(ReadLine(db_files[1], 0)) = k
        /\ RecordValue(ReadLine(db_files[1], 0)) # tmp_dict[k]

\* C15: the janitor removes a cache entry only if, at the moment of removal,
\* the entry's stamp is within epsilon of the stamp of the ticket being
\* processed: an entry refreshed after the ticket was issued is not removed.
C15_RemoveOnlyStale ==
    [][\A k \in DOMAIN cache :
          k \notin DOMAIN cache'
              => /\ jframe.key = k
                 /\ cache[k].stamp - jframe.stamp_operation < Epsilon
                 /\ jframe.stamp_operation - cache[k].stamp < Epsilon]_vars

\* C16: ticket coverage.  In every reachable state each cache entry has a
\* ticket for its key, stamped within epsilon of the entry's stamp, that is
\* still in the queue or is the ticket the janitor is processing.
C16_TicketCoverage ==
    \A k \in DOMAIN cache :
        \/ \E i \in 1..Len(setitem_history) :
              /\ setitem_history[i][2] = k
              /\ setitem_history[i][1] - cache[k].stamp < Epsilon
              /\ cache[k].stamp - setitem_history[i][1] < Epsilon
        \/ /\ jframe.key = k
           /\ jframe.stamp_operation - cache[k].stamp < Epsilon
           /\ cache[k].stamp - jframe.stamp_operation < Epsilon

\* C17: the occupancy gate.  A ticket leaves the queue only in a state whose
\* occupancy is at least 80% of the capacity, and so does every cache entry
\* that is removed; the janitor is never in the middle of a ticket below the
\* threshold; and below the threshold no step takes a ticket from the queue
\* or an entry from the cache, and the janitor stays in its polling loop.
C17_OccupancyGate ==
    /\ [](jpc \in {"j_in", "j_read", "j_clock", "j_wait", "j_recheck", "j_del"}
            => 10 * Cardinality(DOMAIN cache) >= 8 * cache_size)
    /\ [][Len(setitem_history') < Len(setitem_history)
            => 10 * Cardinality(DOMAIN cache) >= 8 * cache_size]_vars
    /\ [][(\E k \in DOMAIN cache : k \notin DOMAIN cache')
            => 10 * Cardinality(DOMAIN cache) >= 8 * cache_size]_vars
    /\ [][(10 * Cardinality(DOMAIN cache) < 8 * cache_size)
            => /\ DOMAIN cache \subseteq DOMAIN cache'
               /\ Len(setitem_history') >= Len(setitem_history)
               /\ SubSeq(setitem_history', 1, Len(setitem_history)) = setitem_history
               /\ (jpc = "j_loop" /\ ~stop_flag => jpc' = "j_loop")]_vars

\* C17 witness: with a capacity of 2 the janitor, having dequeued a ticket at
\* full occupancy, is about to remove its entry.
C17_Witness ==
    /\ cache_size = 2
    /\ jpc = "j_del"
    /\ Cardinality(DOMAIN cache) = 2
    /\ jframe.key \in DOMAIN cache

\* C18: the clock-skew fail-safe.  When the janitor, processing a ticket,
\* reads a clock that is earlier than the entry's stamp it has read or earlier
\* than the ticket's stamp, it drops the ticket and goes back to its loop, and
\* the cache and the queue are as they were.
C18_ClockSkew ==
    [][(/\ jpc = "j_clock"
        /\ jpc' # "j_clock"
        /\ (now < jframe.stamp_cache \/ now < jframe.stamp_operation))
            => /\ jpc' = "j_loop"
               /\ jframe' = NoJFrame
               /\ UNCHANGED <<cache, setitem_history>>]_vars

\* C18 witness: the janitor holds a ticket whose stamp equals the stamp it
\* read from the entry, and the clock is now earlier than both.
C18_Witness ==
    /\ jpc = "j_clock"
    /\ jframe.stamp_cache = jframe.stamp_operation
    /\ now < jframe.stamp_operation
    /\ jframe.key \in DOMAIN cache

\* C19: shutdown liveness.  Once stop() has set the stop flag, the janitor
\* finishes at most the ticket in hand and leaves its loop, and stop()
\* returns.
C19_StopReturns == stop_flag ~> (main \in {"stopped", "deleted"})

\* C20: the janitor never fails on a missing key.  From its membership check
\* to its delete the key of its ticket is in the cache, whatever the callers
\* do, and the janitor never ends with a KeyError, holding the cache lock.
C20_JanitorNoKeyError ==
    /\ jpc # "j_raised"
    /\ jpc \in {"j_read", "j_clock", "j_wait", "j_recheck", "j_del"}
          => jframe.key \in DOMAIN cache

\* C20 witness: the janitor has removed the entry of key 1, dropped the second
\* ticket of key 1 at its membership check, and is about to remove another
\* entry while a get is between its own membership check and its read.
C20_Witness ==
    /\ 1 \notin DOMAIN cache
    /\ jpc = "j_del"
    /\ jframe.key \in DOMAIN cache
    /\ \E t \in Threads : pc[t] = "g_hit" /\ frame[t].key = jframe.key

====
